---- MODULE Spec2Model ----
(***************************************************************************)
(* A model of ScrollSlabViewer's LabelLoader (src/LabelLoader.js): the     *)
(* load request, the asynchronous byte read, the per-frame remap with its  *)
(* cooperative yield, the 26-connected component labeling pass and the     *)
(* hand-off to the volume sink.                                            *)
(*                                                                         *)
(* JavaScript runs each callback to completion: a load request or a        *)
(* cancellation can only arrive while the loader is idle, has ended, or is *)
(* suspended (the pending getFile promise, the pending FileReader read,    *)
(* the setTimeout of the remap loop).  The synchronous stretches are       *)
(* modelled in several steps, but no outside action is enabled in them.    *)
(***************************************************************************)
EXTENDS Integers, Sequences, FiniteSets, TLC

(***************************************************************************)
(* Bounds of the model.                                                    *)
(***************************************************************************)
MaxFiles == 2
MaxVoxels == 4
MaxBlock == 2

(***************************************************************************)
(* Program constants (line 114, line 132, line 105).                       *)
(***************************************************************************)
unlabeled == 0
background == 1
foreground == 2
seedVal == 255
firstComp == 3
supportedBpp == 8

Null == "null"

WarnEmpty == "LabelLoader: No files were loaded, because the supplied file list was empty."
ErrInvalid == "LabelLoader: Invalid item in file list."
ErrBpp == "LabelLoader: Only 8-bit images are supported."
ErrTooMany == "LabelLoader: Volume has too many connected components."
ErrReader == "Error loading image "
ErrGeneric == "Error loading image."
ErrSink == "Volume: loadBegin failed."
MsgDecode == "UTIF: frame cannot be decoded."
MsgReference == "tooManyComponents is not defined"
MsgSink == "Volume: sink call failed."

(***************************************************************************)
(* Inputs.                                                                 *)
(***************************************************************************)
ItemKinds == {"File", "Handle", "Other"}

\* The input lists: up to MaxFiles items, all of them Files but at most one.
FileLists ==
    {l \in UNION {[1..n -> ItemKinds] : n \in 0..MaxFiles} :
        Cardinality({i \in DOMAIN l : l[i] # "File"}) <= 1}

\* The codes a decoded pixel takes in the exhaustively enumerated grids: 0
\* (remapped to Background) and 1 (remapped to Foreground).  The other byte
\* values come with the shaped grids below.
RawVals == {0, 1}

\* Every grid of at most MaxVoxels voxels over RawVals.
SmallShapes ==
    {s \in (1..MaxVoxels) \X (1..MaxVoxels) \X (1..MaxVoxels) :
        s[1] * s[2] * s[3] <= MaxVoxels}

SmallContainers ==
    UNION {{[width |-> s[1], height |-> s[2], frames |-> f] :
               f \in [1..s[3] -> [1..(s[1] * s[2]) -> RawVals]]} : s \in SmallShapes}

\* A container of the given shape: raw code 1 (which remaps to Foreground) at
\* the coordinates of fg, the raw code fill elsewhere.
Shaped(w, h, d, fg, fill) ==
    [width |-> w, height |-> h,
     frames |-> [zz \in 1..d |-> [i \in 1..(w * h) |->
         IF <<(i - 1) % w, (i - 1) \div w, zz - 1>> \in fg THEN 1 ELSE fill]]]

\* n single-voxel blobs on a line, no two adjacent.
LineGrid(n) == Shaped(2 * n - 1, 1, 1, {<<2 * i, 0, 0>> : i \in 0..(n - 1)}, 0)

\* One contiguous 2 x 2 x n block in a 3 x 3 x (n+1) grid.
BlockGrid(n, fill) == Shaped(3, 3, n + 1, (0..1) \X (0..1) \X (0..(n - 1)), fill)

\* The eight corners of a 3 x 3 x 3 grid, with or without the centre voxel
\* that joins them.
CornerGrid(centre, fill) ==
    Shaped(3, 3, 3,
           ({0, 2} \X {0, 2} \X {0, 2}) \cup (IF centre THEN {<<1, 1, 1>>} ELSE {}),
           fill)

\* Two voxels that touch only by a corner, along each of the four space diagonals.
DiagGrid(k, fill) ==
    Shaped(2, 2, 2,
           {<<k % 2, k \div 2, 0>>, <<1 - (k % 2), 1 - (k \div 2), 1>>},
           fill)

\* A 2 x 2 x 2 grid without any foreground.
PlainGrid(fill) == Shaped(2, 2, 2, {}, fill)

\* Two frames that hold every code of the remap table and one outside it.
MixedGrid == [width |-> 2, height |-> 1, frames |-> <<<<0, 1>>, <<2, 7>>>>]

FillVals == {0, 2, 3, 254, 255}

SpecialContainers ==
    {LineGrid(n) : n \in {3, seedVal - 4, seedVal - 3, seedVal - 2}}
    \cup {BlockGrid(n, f) : n \in 1..MaxBlock, f \in FillVals}
    \cup {CornerGrid(c, f) : c \in BOOLEAN, f \in FillVals}
    \cup {DiagGrid(k, f) : k \in 0..3, f \in FillVals}
    \cup {PlainGrid(f) : f \in FillVals}
    \cup {MixedGrid}

Containers == SmallContainers \cup SpecialContainers

NoContainer == [width |-> 0, height |-> 0, frames |-> <<>>]


(***************************************************************************)
(* State.                                                                  *)
(*   fileList .. cancelled, loadProgressCb: the loader's fields.           *)
(*   pc: where the pipeline stands.  "idle": constructed, no request yet;  *)
(*     "getFile", "reading", "yield": suspended; "remap", "scan", "fill",  *)
(*     "loadBegin", "copy", "loadEnd": inside _handleMultiImageTiff;       *)
(*     "end": the session's code has returned for good.                    *)
(*   ifds, bpp, buf, z, compValue, scan, seeds: the locals of              *)
(*     _handleMultiImageTiff (buf is imgBufferArray, scan the x, y, z of   *)
(*     the labeling loops).                                                *)
(*   cbLog, progressLog, sinkLog, readLog: what the session has done to    *)
(*     the outside: completion callbacks (with the fields they saw),       *)
(*     progress callbacks, sink calls, items whose bytes were asked for.   *)
(*   failure: the failure that happened in the session, "none" if none.    *)
(*   cancelReq: a cancellation arrived while this session was suspended.   *)
(***************************************************************************)
VARIABLES fileList, errors, warnings, done, numLabelsFound, cancelled,
          loadProgressCb, pc, ifds, bpp, buf, z, compValue, scan, seeds,
          cbLog, progressLog, sinkLog, readLog, failure, cancelReq

fields == <<fileList, errors, warnings, done, numLabelsFound, cancelled, loadProgressCb>>
locals == <<ifds, bpp, buf, z, compValue, scan, seeds>>
logs == <<cbLog, progressLog, sinkLog, readLog, failure, cancelReq>>
vars == <<fields, pc, locals, logs>>

imgWidth == ifds.width
imgHeight == ifds.height
numImgs == Len(ifds.frames)
wh == imgWidth * imgHeight

Suspended == {"getFile", "reading", "yield"}

Init ==
    /\ fileList = <<>>
    /\ errors = Null
    /\ warnings = Null
    /\ done = FALSE
    /\ numLabelsFound = 0
    /\ cancelled = FALSE
    /\ loadProgressCb = FALSE
    /\ pc = "idle"
    /\ ifds = NoContainer
    /\ bpp = 0
    /\ buf = <<>>
    /\ z = 0
    /\ compValue = 0
    /\ scan = <<0, 0, 0>>
    /\ seeds = <<>>
    /\ cbLog = <<>>
    /\ progressLog = <<>>
    /\ sinkLog = <<>>
    /\ readLog = <<>>
    /\ failure = "none"
    /\ cancelReq = FALSE

(***************************************************************************)
(* BigLime.Utils.SafeInvoke(this.loadCompleteCb, [this]): the callback     *)
(* sees the loader as the calling step leaves it.                          *)
(***************************************************************************)
InvokeComplete(d, e, w, n) ==
    cbLog' = Append(cbLog, [done |-> d, errors |-> e, warnings |-> w, componentCount |-> n])

\* The values thrown or passed to _onImageLoadingError.
TheReader == [isReader |-> TRUE, message |-> ""]
Exception(msg) == [isReader |-> FALSE, message |-> msg]
ExMessages(msg) == {msg, ""}

ErrorText(arg) ==
    IF arg.isReader THEN ErrReader
    ELSE IF arg.message # "" THEN arg.message
    ELSE ErrGeneric

\* The guard without its test of the cancellation flag.
ErrorGuardDoneOnly(c, d) == d

\* Line 228, with the values the two fields hold when it is reached.
ErrorGuard(c, d) == c \/ d

\* _onImageLoadingError(arg); it leaves numLabelsFound and warnings alone.
OnImageLoadingError(arg) ==
    IF ErrorGuard(cancelled, done)
    THEN UNCHANGED <<done, errors, cbLog>>
    ELSE /\ done' = TRUE
         /\ errors' = ErrorText(arg)
         /\ InvokeComplete(TRUE, ErrorText(arg), warnings, numLabelsFound)

IsValidItem(f) == f \in {"File", "Handle"}

\* The validity test applied to the first item alone.
SomeInvalidFirstOnly(list) == ~IsValidItem(list[1])

\* Line 56.
SomeInvalid(list) == \E i \in 1..Len(list) : ~IsValidItem(list[i])

\* The trivial case with its text stored as an error.
EmptyResultAsError == [done |-> TRUE, errors |-> WarnEmpty, warnings |-> Null]

\* Lines 49-50: what the trivial case leaves in done, errors and warnings.
EmptyResult == [done |-> TRUE, errors |-> Null, warnings |-> WarnEmpty]

\* The last item of the list read in place of the first.
ReadIndexLast(list) == Len(list) - 1

\* Lines 69-79: the item whose bytes are read is fileList[0].
ReadIndex(list) == 0

\* loadImagesIntoVolume(imgFiles, volume, completionCb, progressCb).  The
\* caller starts a request only when no session is under way (the loader has
\* no lock of its own).
LoadRequest(imgFiles, progressCb) ==
    /\ pc \in {"idle", "end"}
    /\ fileList' = imgFiles
    /\ loadProgressCb' = progressCb
    /\ numLabelsFound' = 0
    /\ warnings' = IF Len(imgFiles) = 0 THEN EmptyResult.warnings ELSE Null
    /\ UNCHANGED cancelled
    /\ ifds' = NoContainer /\ bpp' = 0 /\ buf' = <<>> /\ z' = 0
    /\ compValue' = 0 /\ scan' = <<0, 0, 0>> /\ seeds' = <<>>
    /\ sinkLog' = <<>> /\ cancelReq' = FALSE
    /\ IF Len(imgFiles) = 0
       THEN /\ done' = EmptyResult.done
            /\ errors' = EmptyResult.errors
            /\ cbLog' = <<[done |-> EmptyResult.done, errors |-> EmptyResult.errors,
                           warnings |-> EmptyResult.warnings, componentCount |-> 0]>>
            /\ progressLog' = <<>> /\ readLog' = <<>>
            /\ failure' = "none"
            /\ pc' = "end"
       ELSE IF SomeInvalid(imgFiles)
       THEN /\ done' = TRUE
            /\ errors' = ErrInvalid
            /\ cbLog' = <<[done |-> TRUE, errors |-> ErrInvalid,
                           warnings |-> Null, componentCount |-> 0]>>
            /\ progressLog' = <<>> /\ readLog' = <<>>
            /\ failure' = "invalid"
            /\ pc' = "end"
       ELSE /\ done' = FALSE
            /\ errors' = Null
            /\ cbLog' = <<>>
            /\ progressLog' = IF progressCb THEN <<<<0, Len(imgFiles)>>>> ELSE <<>>
            /\ readLog' = <<ReadIndex(imgFiles)>>
            /\ failure' = "none"
            /\ pc' = IF imgFiles[ReadIndex(imgFiles) + 1] = "Handle" THEN "getFile" ELSE "reading"

\* fileList[0].getFile() resolves: fileReader.readAsArrayBuffer(file).
GetFileResolved ==
    /\ pc = "getFile"
    /\ pc' = "reading"
    /\ UNCHANGED <<fields, locals, logs>>

\* getFile() rejects: the .catch handler calls _onImageLoadingError(fileReader).
GetFileRejected ==
    /\ pc = "getFile"
    /\ OnImageLoadingError(TheReader)
    /\ failure' = "getFile"
    /\ pc' = "end"
    /\ UNCHANGED <<fileList, warnings, numLabelsFound, cancelled, loadProgressCb>>
    /\ UNCHANGED <<locals, progressLog, sinkLog, readLog, cancelReq>>

\* fileReader.onerror.
ReadError ==
    /\ pc = "reading"
    /\ OnImageLoadingError(TheReader)
    /\ failure' = "read"
    /\ pc' = "end"
    /\ UNCHANGED <<fileList, warnings, numLabelsFound, cancelled, loadProgressCb>>
    /\ UNCHANGED <<locals, progressLog, sinkLog, readLog, cancelReq>>

\* The cancellation flag is raised by the caller, between callbacks.
Cancel ==
    /\ pc \in {"idle", "end"} \cup Suspended
    /\ cancelled' = TRUE
    /\ cancelReq' = (cancelReq \/ pc \in Suspended)
    /\ UNCHANGED <<fileList, errors, warnings, done, numLabelsFound, loadProgressCb>>
    /\ UNCHANGED <<pc, locals, cbLog, progressLog, sinkLog, readLog, failure>>


(***************************************************************************)
(* _handleMultiImageTiff: from onload to the start of the remap loop.      *)
(***************************************************************************)

\* Line 91: the session was cancelled while the read was pending.
HandleCancelled ==
    /\ pc = "reading"
    /\ cancelled
    /\ pc' = "end"
    /\ UNCHANGED <<fields, locals, logs>>

\* Line 93: UTIF.decode throws.  The call stands before the try block, so the
\* async function's promise is rejected and nobody handles it.
ContainerThrows ==
    /\ pc = "reading"
    /\ ~cancelled
    /\ failure' = "container"
    /\ pc' = "end"
    /\ UNCHANGED <<fields, locals, cbLog, progressLog, sinkLog, readLog, cancelReq>>

\* Line 98: decoding the first frame throws (or the container holds no frame
\* and ifds[0] is undefined); the catch block reports it.
FirstFrameThrows ==
    /\ pc = "reading"
    /\ ~cancelled
    /\ \E m \in ExMessages(MsgDecode) : OnImageLoadingError(Exception(m))
    /\ failure' = "frame"
    /\ pc' = "end"
    /\ UNCHANGED <<fileList, warnings, numLabelsFound, cancelled, loadProgressCb>>
    /\ UNCHANGED <<locals, progressLog, sinkLog, readLog, cancelReq>>

UnsupportedBpp == {1, 16}

BppRejected(b) == b # supportedBpp

\* The bit-depth error without its return: the code falls into the remap loop.
AfterBppErrorFallThrough == "remap"

\* Line 109: the return that ends the session after the bit-depth error.
AfterBppError == "end"

\* Lines 105-110: a bit depth other than 8.
BadBpp ==
    /\ pc = "reading"
    /\ ~cancelled
    /\ \E b \in UnsupportedBpp :
          /\ BppRejected(b)
          /\ bpp' = b
    /\ errors' = ErrBpp
    /\ done' = TRUE
    /\ InvokeComplete(TRUE, ErrBpp, warnings, numLabelsFound)
    /\ failure' = "bpp"
    /\ pc' = AfterBppError
    /\ UNCHANGED <<fileList, warnings, numLabelsFound, cancelled, loadProgressCb>>
    /\ UNCHANGED <<ifds, buf, z, compValue, scan, seeds>>
    /\ UNCHANGED <<progressLog, sinkLog, readLog, cancelReq>>

\* Lines 93-115: the container decodes to 8-bit frames; the remap loop starts.
Decoded ==
    /\ pc = "reading"
    /\ ~cancelled
    /\ \E c \in Containers :
          /\ ifds' = c
          /\ buf' = [i \in 1..Len(c.frames) |-> <<>>]
    /\ bpp' = supportedBpp
    /\ ~BppRejected(bpp')
    /\ z' = 0
    /\ pc' = "remap"
    /\ UNCHANGED <<fields, compValue, scan, seeds, logs>>

(***************************************************************************)
(* The remap loop, lines 115-129.                                          *)
(***************************************************************************)

\* The table applied a second time to its own result.
RemapTwice(val) ==
    LET once == IF val = 2 THEN 0 ELSE IF val = 1 THEN 2 ELSE IF val = 0 THEN 1 ELSE val
    IN  IF once = 2 THEN 0 ELSE IF once = 1 THEN 2 ELSE IF once = 0 THEN 1 ELSE once

\* Line 120.
Remap(val) ==
    IF val = 2 THEN unlabeled
    ELSE IF val = 1 THEN foreground
    ELSE IF val = 0 THEN background
    ELSE val

RemapFrame(arr) == [j \in 1..Len(arr) |-> Remap(arr[j])]

\* Lines 116-128 for frame z: decode, remap, report progress and yield.
RemapStep ==
    /\ pc = "remap"
    /\ z < numImgs
    /\ buf' = [buf EXCEPT ![z + 1] = RemapFrame(ifds.frames[z + 1])]
    /\ IF loadProgressCb
       THEN /\ progressLog' = Append(progressLog, <<z, numImgs>>)
            /\ pc' = "yield"
            /\ z' = z
       ELSE /\ progressLog' = progressLog
            /\ pc' = "remap"
            /\ z' = z + 1
    /\ UNCHANGED <<fields, ifds, bpp, compValue, scan, seeds>>
    /\ UNCHANGED <<cbLog, sinkLog, readLog, failure, cancelReq>>

\* Line 116: decoding a later frame throws (frame 0 was decoded at line 98).
FrameThrows ==
    /\ pc = "remap"
    /\ 0 < z /\ z < numImgs
    /\ \E m \in ExMessages(MsgDecode) : OnImageLoadingError(Exception(m))
    /\ failure' = "frame"
    /\ pc' = "end"
    /\ UNCHANGED <<fileList, warnings, numLabelsFound, cancelled, loadProgressCb>>
    /\ UNCHANGED <<locals, progressLog, sinkLog, readLog, cancelReq>>

\* Lines 126-127: the timer fires; the flag is checked, the loop goes on.
YieldResume ==
    /\ pc = "yield"
    /\ IF cancelled
       THEN pc' = "end" /\ z' = z
       ELSE pc' = "remap" /\ z' = z + 1
    /\ UNCHANGED <<fields, ifds, bpp, buf, compValue, scan, seeds, logs>>

\* Line 132: the remap loop is over, labeling starts.
StartLabeling ==
    /\ pc = "remap"
    /\ z = numImgs
    /\ compValue' = firstComp
    /\ scan' = <<0, 0, 0>>
    /\ pc' = "scan"
    /\ UNCHANGED <<fields, ifds, bpp, buf, z, seeds, logs>>


(***************************************************************************)
(* The labeling pass, lines 132-195.                                       *)
(***************************************************************************)

\* imgBufferArray[zz][yy*imgWidth + xx]
Voxel(b, xx, yy, zz) == b[zz + 1][yy * imgWidth + xx + 1]

\* A store into a Uint8Array keeps the low eight bits.
Byte(v) == v % 256

SetVoxel(b, xx, yy, zz, v) ==
    [b EXCEPT ![zz + 1] = [@ EXCEPT ![yy * imgWidth + xx + 1] = Byte(v)]]

\* The test of lines 138, 162, 169 and 176.
IsForeground(v) == v = foreground

\* The neighbour offsets in the order the loops of lines 148-180 visit them:
\* dz outermost, then dy, then the unrolled x-1, x, x+1.
Offsets == 0..26
OffsetX(k) == (k % 3) - 1
OffsetY(k) == ((k % 9) \div 3) - 1
OffsetZ(k) == (k \div 9) - 1

\* The bounds test with the last column left out.
InGridShort(xp, yp, zp) ==
    /\ ~(zp < 0 \/ zp >= numImgs)
    /\ ~(yp < 0 \/ yp >= imgHeight)
    /\ xp >= 0
    /\ xp < imgWidth - 1

\* Lines 151, 156, 161, 175 (x itself is not tested: it is the seed's own x).
InGrid(xp, yp, zp) ==
    /\ ~(zp < 0 \/ zp >= numImgs)
    /\ ~(yp < 0 \/ yp >= imgHeight)
    /\ xp >= 0
    /\ xp < imgWidth

\* A pushed neighbour left unmarked.
MarkNothing(b, xx, yy, zz) == b

\* Lines 164, 171 and 178: a pushed neighbour is marked as a seed.
MarkSeed(b, xx, yy, zz) == SetVoxel(b, xx, yy, zz, seedVal)

\* Lines 148-182 from offset k on: every in-grid neighbour that holds
\* foreground is pushed and marked as a seed.  The result is <<buffers, seeds>>.
RECURSIVE Visit(_, _, _, _, _, _)
Visit(b, s, k, seedX, seedY, seedZ) ==
    IF k \notin Offsets THEN <<b, s>>
    ELSE LET xp == seedX + OffsetX(k)
             yp == seedY + OffsetY(k)
             zp == seedZ + OffsetZ(k)
         IN  IF InGrid(xp, yp, zp) /\ IsForeground(Voxel(b, xp, yp, zp))
             THEN Visit(MarkSeed(b, xp, yp, zp), Append(s, <<xp, yp, zp>>),
                        k + 1, seedX, seedY, seedZ)
             ELSE Visit(b, s, k + 1, seedX, seedY, seedZ)

\* The scan with y as its innermost loop.
AdvanceColumnwise(p) ==
    IF p[2] + 1 < imgHeight THEN <<p[1], p[2] + 1, p[3]>>
    ELSE IF p[1] + 1 < imgWidth THEN <<p[1] + 1, 0, p[3]>>
    ELSE <<0, 0, p[3] + 1>>

\* The next position of the loops of lines 133-136.
Advance(p) ==
    IF p[1] + 1 < imgWidth THEN <<p[1] + 1, p[2], p[3]>>
    ELSE IF p[2] + 1 < imgHeight THEN <<0, p[2] + 1, p[3]>>
    ELSE <<0, 0, p[3] + 1>>

ScanOver == scan[3] >= numImgs

\* Line 138: the voxel is not foreground, the scan goes on.
ScanSkip ==
    /\ pc = "scan"
    /\ ~ScanOver
    /\ ~IsForeground(Voxel(buf, scan[1], scan[2], scan[3]))
    /\ scan' = Advance(scan)
    /\ UNCHANGED <<fields, pc, ifds, bpp, buf, z, compValue, seeds, logs>>

\* Lines 139-140: a foreground voxel starts a component.
ScanSeed ==
    /\ pc = "scan"
    /\ ~ScanOver
    /\ IsForeground(Voxel(buf, scan[1], scan[2], scan[3]))
    /\ buf' = SetVoxel(buf, scan[1], scan[2], scan[3], seedVal)
    /\ seeds' = <<scan>>
    /\ pc' = "fill"
    /\ UNCHANGED <<fields, ifds, bpp, z, compValue, scan, logs>>

\* The last coordinate popped and its neighbours visited, the id not written.
PopStepNoLabel(b, s, c) ==
    LET top == s[Len(s)]
    IN  Visit(b, SubSeq(s, 1, Len(s) - 1), 0, top[1], top[2], top[3])

\* The last coordinate read and labeled but left on the worklist.
PopStepPeek(b, s, c) ==
    LET top == s[Len(s)]
    IN  Visit(SetVoxel(b, top[1], top[2], top[3], c), s, 0, top[1], top[2], top[3])

\* Lines 144-182 on buffers b, worklist s and component id c: the last
\* coordinate is popped and labeled, its neighbours are visited.
PopStep(b, s, c) ==
    LET top == s[Len(s)]
    IN  Visit(SetVoxel(b, top[1], top[2], top[3], c),
              SubSeq(s, 1, Len(s) - 1), 0, top[1], top[2], top[3])

\* Lines 144-182: one turn of the while loop.
FillPop ==
    /\ pc = "fill"
    /\ Len(seeds) > 0
    /\ LET r == PopStep(buf, seeds, compValue)
       IN  /\ buf' = r[1]
           /\ seeds' = r[2]
    /\ UNCHANGED <<fields, pc, ifds, bpp, z, compValue, scan, logs>>

\* The ceiling test one id too late.
CapacityReachedLate(c) == c > seedVal

\* Line 185.
CapacityReached(c) == c >= seedVal

\* Lines 184-191: the component is complete.  At the ceiling, line 186 assigns
\* to tooManyComponents, which no scope declares: in strict mode (line 2) that
\* throws a ReferenceError, which the catch block of line 215 reports; lines
\* 187-190 are never reached.
FillDone ==
    /\ pc = "fill"
    /\ Len(seeds) = 0
    /\ compValue' = compValue + 1
    /\ IF CapacityReached(compValue')
       THEN /\ OnImageLoadingError(Exception(MsgReference))
            /\ failure' = "capacity"
            /\ pc' = "end"
            /\ scan' = scan
       ELSE /\ UNCHANGED <<done, errors, cbLog, failure>>
            /\ pc' = "scan"
            /\ scan' = Advance(scan)
    /\ UNCHANGED <<fileList, warnings, numLabelsFound, cancelled, loadProgressCb>>
    /\ UNCHANGED <<ifds, bpp, buf, z, seeds, progressLog, sinkLog, readLog, cancelReq>>

\* The count with the wrong starting id subtracted.
LabelsFoundOffByOne(c) == c - foreground

\* Line 195.
LabelsFound(c) == c - firstComp

\* The whole pass of lines 132-195 as a function of the buffers it is given,
\* from scan position p with id counter c: the steps above, run to the end.
RECURSIVE Fill(_, _, _)
Fill(b, s, c) ==
    IF Len(s) = 0 THEN b
    ELSE LET r == PopStep(b, s, c) IN Fill(r[1], r[2], c)

RECURSIVE ScanFrom(_, _, _)
ScanFrom(b, p, c) ==
    IF p[3] >= numImgs THEN [buf |-> b, compValue |-> c, aborted |-> FALSE]
    ELSE IF ~IsForeground(Voxel(b, p[1], p[2], p[3])) THEN ScanFrom(b, Advance(p), c)
    ELSE LET filled == Fill(SetVoxel(b, p[1], p[2], p[3], seedVal), <<p>>, c)
         IN  IF CapacityReached(c + 1)
             THEN [buf |-> filled, compValue |-> c + 1, aborted |-> TRUE]
             ELSE ScanFrom(filled, Advance(p), c + 1)

Labeler(b) == ScanFrom(b, <<0, 0, 0>>, firstComp)

\* Line 195: the scan is over.
ScanEnd ==
    /\ pc = "scan"
    /\ ScanOver
    /\ numLabelsFound' = LabelsFound(compValue)
    /\ pc' = "loadBegin"
    /\ UNCHANGED <<fileList, errors, warnings, done, cancelled, loadProgressCb>>
    /\ UNCHANGED <<locals, logs>>

(***************************************************************************)
(* The hand-off to the volume, lines 198-213.                              *)
(***************************************************************************)

\* The session going on to the copy after a loadBegin error.
AfterSinkErrorFallThrough == "copy"

\* Line 203: the return that ends the session after a loadBegin error.
AfterSinkError == "end"

\* Lines 198-204: vol.loadBegin returns an error text or nothing.
LoadBegin ==
    /\ pc = "loadBegin"
    /\ sinkLog' = Append(sinkLog, [op |-> "loadBegin", dims |-> <<imgWidth, imgHeight, numImgs>>,
                                   grid |-> buf])
    /\ \E r \in {Null, ErrSink} :
          /\ errors' = r
          /\ IF r # Null
             THEN /\ done' = TRUE
                  /\ InvokeComplete(TRUE, r, warnings, numLabelsFound)
                  /\ failure' = "loadBegin"
                  /\ pc' = AfterSinkError
             ELSE /\ UNCHANGED <<done, cbLog, failure>>
                  /\ pc' = "copy"
    /\ UNCHANGED <<fileList, warnings, numLabelsFound, cancelled, loadProgressCb>>
    /\ UNCHANGED <<locals, progressLog, readLog, cancelReq>>

\* The buffers zeroed by the copy.
CopiedCleared(b) == [i \in DOMAIN b |-> [j \in DOMAIN b[i] |-> unlabeled]]

\* The buffers after _copyImagesToTexture, a method of the base loader: the
\* copy reads imgBuffers and writes the volume's texture, not the buffers.
Copied(b) == b

\* Lines 205-206: the planes [0, numImgs) go to the volume.
CopyImages ==
    /\ pc = "copy"
    /\ sinkLog' = Append(sinkLog, [op |-> "copy", dims |-> <<0, numImgs>>, grid |-> buf])
    /\ buf' = Copied(buf)
    /\ pc' = "loadEnd"
    /\ UNCHANGED <<fields, ifds, bpp, z, compValue, scan, seeds>>
    /\ UNCHANGED <<cbLog, progressLog, readLog, failure, cancelReq>>

\* Line 206: a sink call of the copy throws; the catch block reports it.
CopyThrows ==
    /\ pc = "copy"
    /\ sinkLog' = Append(sinkLog, [op |-> "copy", dims |-> <<0, numImgs>>, grid |-> buf])
    /\ \E m \in ExMessages(MsgSink) : OnImageLoadingError(Exception(m))
    /\ failure' = "copy"
    /\ pc' = "end"
    /\ UNCHANGED <<fileList, warnings, numLabelsFound, cancelled, loadProgressCb>>
    /\ UNCHANGED <<locals, progressLog, readLog, cancelReq>>

\* Lines 208-212: done is set, the volume is closed, the caller is told.
LoadEnd ==
    /\ pc = "loadEnd"
    /\ ~done
    /\ done' = TRUE
    /\ sinkLog' = Append(sinkLog, [op |-> "loadEnd", dims |-> <<>>, grid |-> buf])
    /\ InvokeComplete(TRUE, errors, warnings, numLabelsFound)
    /\ pc' = "end"
    /\ UNCHANGED <<fileList, errors, warnings, numLabelsFound, cancelled, loadProgressCb>>
    /\ UNCHANGED <<locals, progressLog, readLog, failure, cancelReq>>

\* Line 210: vol.loadEnd throws.  done was set on line 209, so the
\* _onImageLoadingError of the catch block returns at its guard.
LoadEndThrows ==
    /\ pc = "loadEnd"
    /\ ~done
    /\ sinkLog' = Append(sinkLog, [op |-> "loadEnd", dims |-> <<>>, grid |-> buf])
    /\ done' = TRUE
    /\ \E m \in ExMessages(MsgSink) :
          IF ErrorGuard(cancelled, TRUE)
          THEN UNCHANGED <<errors, cbLog>>
          ELSE /\ errors' = ErrorText(Exception(m))
               /\ InvokeComplete(TRUE, ErrorText(Exception(m)), warnings, numLabelsFound)
    /\ failure' = "loadEnd"
    /\ pc' = "end"
    /\ UNCHANGED <<fileList, warnings, numLabelsFound, cancelled, loadProgressCb>>
    /\ UNCHANGED <<locals, progressLog, readLog, cancelReq>>

Next ==
    \/ \E imgFiles \in FileLists, progressCb \in BOOLEAN : LoadRequest(imgFiles, progressCb)
    \/ GetFileResolved
    \/ GetFileRejected
    \/ ReadError
    \/ Cancel
    \/ HandleCancelled
    \/ ContainerThrows
    \/ FirstFrameThrows
    \/ BadBpp
    \/ Decoded
    \/ RemapStep
    \/ FrameThrows
    \/ YieldResume
    \/ StartLabeling
    \/ ScanSkip
    \/ ScanSeed
    \/ FillPop
    \/ FillDone
    \/ ScanEnd
    \/ LoadBegin
    \/ CopyImages
    \/ CopyThrows
    \/ LoadEnd
    \/ LoadEndThrows

Spec == Init /\ [][Next]_vars

\* Line 132 of a loader's first session, on a one-file list without progress
\* callback: every frame of the decoded container has been remapped.
LabelInit ==
    /\ fileList = <<"File">>
    /\ errors = Null
    /\ warnings = Null
    /\ done = FALSE
    /\ numLabelsFound = 0
    /\ cancelled = FALSE
    /\ loadProgressCb = FALSE
    /\ pc = "scan"
    /\ ifds \in Containers
    /\ bpp = supportedBpp
    /\ buf = [i \in 1..Len(ifds.frames) |-> RemapFrame(ifds.frames[i])]
    /\ z = Len(ifds.frames)
    /\ compValue = firstComp
    /\ scan = <<0, 0, 0>>
    /\ seeds = <<>>
    /\ cbLog = <<>>
    /\ progressLog = <<>>
    /\ sinkLog = <<>>
    /\ readLog = <<ReadIndex(fileList)>>
    /\ failure = "none"
    /\ cancelReq = FALSE

\* Lines 133-195 run without a suspension point: once the remap loop is over
\* the statements of the labeling pass follow one another to its return.
LabelingStep ==
    \/ ScanSkip
    \/ ScanSeed
    \/ FillPop
    \/ FillDone
    \/ ScanEnd

\* The labeling pass alone, from each grid the remap loop can hand it.
LabelSpec == LabelInit /\ [][LabelingStep]_vars /\ WF_vars(LabelingStep)


(***************************************************************************)
(* Properties.                                                             *)
(***************************************************************************)

Completions == Len(cbLog)

\* C1: in a session that is never cancelled, every failure (an invalid item, a
\* failed read, the container decoder throwing, a frame decoder throwing, a
\* bit depth other than 8, too many components, a loadBegin error, a sink call
\* throwing during the copy or in loadEnd) ends with errors set, done = true
\* and exactly one completion callback.
C1_FailureReported ==
    (pc = "end" /\ failure # "none" /\ ~cancelled)
        => (errors # Null /\ done /\ Completions = 1)

\* C2: once a cancellation has arrived at a suspension point of an accepted
\* session (the pending read, a yield of the remap loop), the completion
\* callback is never invoked for that session.
C2_CancelledNeverCompletes == cancelReq => Completions = 0

\* A session cancelled at a yield of the remap loop, after which its code
\* has returned.
C2_Witness ==
    /\ cancelReq
    /\ pc = "end"
    /\ loadProgressCb
    /\ Len(progressLog) >= 2
    /\ failure = "none"

\* C3: the completion callback is invoked at most once per load request, and
\* every invocation sees done = true.
C3_AtMostOnce ==
    /\ Completions <= 1
    /\ \A i \in 1..Completions : cbLog[i].done

\* A session that went through labeling and upload and told its caller.
C3_Witness ==
    /\ pc = "end"
    /\ Completions = 1
    /\ failure = "none"
    /\ numLabelsFound >= 1
    /\ Len(sinkLog) = 3

\* C4: a request with an empty list has ended when it returns, with
\* done = true, no error, a warning and one completion callback; no read, no
\* progress callback and no sink call.
C4_EmptyList ==
    (pc # "idle" /\ Len(fileList) = 0)
        => /\ pc = "end"
           /\ done
           /\ errors = Null
           /\ warnings # Null
           /\ Completions = 1
           /\ readLog = <<>>
           /\ progressLog = <<>>
           /\ sinkLog = <<>>

\* An empty request made with a progress callback.
C4_Witness ==
    /\ pc = "end"
    /\ Len(fileList) = 0
    /\ loadProgressCb
    /\ Completions = 1

Unrecognized(f) == f \notin {"File", "Handle"}

\* C5: a request whose list holds an item of an unrecognized type, at any
\* position, has failed when it returns: done = true, errors set, one
\* completion callback, no read and no progress callback.
C5_InvalidItem ==
    (pc # "idle" /\ \E i \in DOMAIN fileList : Unrecognized(fileList[i]))
        => /\ pc = "end"
           /\ done
           /\ errors # Null
           /\ Completions = 1
           /\ readLog = <<>>
           /\ progressLog = <<>>

\* The unrecognized item stands behind a valid first item.
C5_Witness ==
    /\ pc = "end"
    /\ Len(fileList) >= 2
    /\ ~Unrecognized(fileList[1])
    /\ Unrecognized(fileList[2])
    /\ loadProgressCb
    /\ Completions = 1


(***************************************************************************)
(* The grid as the specification speaks of it.                             *)
(***************************************************************************)

Coords ==
    {<<xx, yy, zz>> : xx \in 0..(imgWidth - 1), yy \in 0..(imgHeight - 1),
                      zz \in 0..(numImgs - 1)}

\* The decoded code of a voxel, and the state the remap table of the
\* specification gives it.
RawAt(c) == ifds.frames[c[3] + 1][c[2] * imgWidth + c[1] + 1]

Table(v) == CASE v = 0 -> 1 [] v = 1 -> 2 [] v = 2 -> 0 [] OTHER -> v

\* The voxels that are Foreground after remapping.
FG0 == {c \in Coords : Table(RawAt(c)) = 2}

ValueAt(c) == buf[c[3] + 1][c[2] * imgWidth + c[1] + 1]

Near(a, b) == a - b \in {-1, 0, 1}

Adjacent(u, v) == u # v /\ Near(u[1], v[1]) /\ Near(u[2], v[2]) /\ Near(u[3], v[3])

\* The maximal 26-connected region of Foreground voxels that holds S.
RECURSIVE Grow(_)
Grow(S) ==
    LET more == {v \in FG0 \ S : \E u \in S : Adjacent(u, v)}
    IN  IF more = {} THEN S ELSE Grow(S \cup more)

RegionOf(u) == Grow({u})

Raster(c) == (c[3] * imgHeight + c[2]) * imgWidth + c[1]

FirstOf(R) == CHOOSE f \in R : \A g \in R : Raster(f) <= Raster(g)

\* The raster-first voxel of every region.
Firsts == {c \in FG0 : c = FirstOf(RegionOf(c))}

NumRegions == Cardinality(Firsts)

\* The labeling pass has just run to its end.
Labeled == pc = "loadBegin"

\* C6: a grid of at most 251 regions is labeled completely, with the ids
\* 3 .. 2 + regions, and the session counts that many components; a grid of
\* 252 or more regions fails the load, the completion callback reporting an
\* error; no completion callback reports success with another count than the
\* number of regions.
C6_CapacityCeiling ==
    /\ Labeled =>
          /\ NumRegions <= 251
          /\ numLabelsFound = NumRegions
          /\ {ValueAt(c) : c \in FG0} = 3..(2 + NumRegions)
    /\ failure = "capacity" =>
          /\ NumRegions >= 252
          /\ pc = "end"
          /\ done
          /\ errors # Null
          /\ Completions = 1
          /\ cbLog[1].errors # Null
    /\ (Completions >= 1 /\ cbLog[1].errors = Null /\ numImgs > 0) =>
          /\ NumRegions <= 251
          /\ cbLog[1].componentCount = NumRegions

\* A grid of exactly 251 regions has been loaded.
C6_Witness ==
    /\ pc = "end"
    /\ failure = "none"
    /\ Completions = 1
    /\ cbLog[1].errors = Null
    /\ cbLog[1].componentCount = 251

\* C7: at the capacity ceiling the error of the session, and the one the
\* completion callback sees, is the too-many-components error.
C7_CapacityErrorText ==
    failure = "capacity" =>
        /\ errors = ErrTooMany
        /\ Completions = 1
        /\ cbLog[1].errors = ErrTooMany

\* Whether S is a contiguous 2 x 2 x n block.
IsBlock(S) ==
    /\ S # {}
    /\ LET f == FirstOf(S)
           n == Cardinality(S) \div 4
       IN  S = (f[1]..(f[1] + 1)) \X (f[2]..(f[2] + 1)) \X (f[3]..(f[3] + n - 1))

\* C8: after labeling, two voxels that were Foreground hold the same id
\* exactly when they lie in the same maximal 26-connected region, every other
\* voxel keeps its value, and a lone 2 x 2 x n block gets the id 3 on all its
\* voxels and the count 1.
C8_RegionsLabeled ==
    Labeled =>
        /\ \A u \in FG0 :
              LET R == RegionOf(u)
              IN  \A v \in FG0 : (ValueAt(u) = ValueAt(v)) <=> (v \in R)
        /\ \A c \in Coords \ FG0 : ValueAt(c) = Table(RawAt(c))
        /\ IsBlock(FG0) =>
              /\ \A c \in FG0 : ValueAt(c) = 3
              /\ numLabelsFound = 1

\* A 2 x 2 x 2 block, alone in a larger grid, has been labeled.
C8_Witness ==
    /\ Labeled
    /\ IsBlock(FG0)
    /\ Cardinality(FG0) = 8
    /\ Cardinality(Coords) > 8

\* C9: the ids are 3, 4, ... in the raster order of the regions' first voxels,
\* none skipped, and the count (the id counter minus 3) is the number of
\* regions.
C9_RasterOrder ==
    Labeled =>
        LET firsts == Firsts
        IN  /\ \A u \in FG0 :
                  LET f == FirstOf(RegionOf(u))
                  IN  ValueAt(u) = 3 + Cardinality({g \in firsts : Raster(g) < Raster(f)})
            /\ numLabelsFound = compValue - 3
            /\ numLabelsFound = Cardinality(firsts)

\* Several regions on several rows and planes have been labeled.
C9_Witness ==
    /\ Labeled
    /\ numLabelsFound = 8
    /\ imgHeight = 3

\* C10: on a grid without Foreground the labeler counts 0 components and
\* changes no voxel; the labeler's own output holds no Foreground, and a
\* second pass over it counts 0 and changes nothing.
C10_NoForeground ==
    Labeled =>
        /\ FG0 = {} =>
              /\ numLabelsFound = 0
              /\ \A c \in Coords : ValueAt(c) = Table(RawAt(c))
        /\ \A c \in Coords : ValueAt(c) # 2
        /\ LET again == Labeler(buf)
           IN  /\ ~again.aborted
               /\ again.buf = buf
               /\ LabelsFound(again.compValue) = 0

\* A grid without Foreground, holding the seed value, went through the pass.
C10_Witness ==
    /\ Labeled
    /\ FG0 = {}
    /\ \E c \in Coords : ValueAt(c) = 255

\* The step-wise pass and the pass as a function agree.
LabelerAgrees ==
    Labeled => Labeler([i \in 1..numImgs |-> RemapFrame(ifds.frames[i])]).buf = buf


\* The labeling pass stands at its first step.
LabelingBegins ==
    pc = "scan" /\ scan = <<0, 0, 0>> /\ compValue = firstComp /\ seeds = <<>>

\* C11: when labeling begins every pixel of every frame holds table(raw), the
\* table being 0 -> 1, 1 -> 2, 2 -> 0 and the identity elsewhere; while the
\* remap loop runs, each frame it has passed holds table(raw) and the others
\* are untouched; no voxel is labeled before every frame has been remapped.
C11_RemappedOnce ==
    /\ LabelingBegins => \A c \in Coords : ValueAt(c) = Table(RawAt(c))
    /\ pc \in {"remap", "yield"} =>
          \A i \in 1..numImgs :
              \/ buf[i] = <<>> /\ i > z
              \/ /\ Len(buf[i]) = imgWidth * imgHeight
                 /\ i <= z + 1
                 /\ \A j \in 1..Len(buf[i]) : buf[i][j] = Table(ifds.frames[i][j])
    /\ pc \in {"scan", "fill"} =>
          /\ z = numImgs
          /\ \A i \in 1..numImgs : Len(buf[i]) = imgWidth * imgHeight

\* Labeling begins on two frames that held the codes 0, 1, 2 and another one.
C11_Witness ==
    /\ LabelingBegins
    /\ numImgs = 2
    /\ {RawAt(c) : c \in Coords} = {0, 1, 2, 7}
    /\ loadProgressCb


\* The operations the volume has seen in this session, in order.
SinkOps == [i \in 1..Len(sinkLog) |-> sinkLog[i].op]

SinkOrder == <<"loadBegin", "copy", "loadEnd">>

\* C12: the volume sees loadBegin, then the copy of the planes [0, D), then
\* loadEnd, each at most once and in that order, and the completion callback
\* of a successful session comes only with loadEnd; loadBegin is called only
\* after the labeling pass has gone over the whole grid without reaching the
\* capacity ceiling, so a session that failed earlier or was cancelled has
\* called nothing; after a loadBegin error neither copy nor loadEnd is called.
C12_SinkOrder ==
    /\ \E n \in 0..3 : SinkOps = SubSeq(SinkOrder, 1, n)
    /\ \A i \in 1..Len(sinkLog) :
          /\ sinkLog[i].op = "loadBegin" => sinkLog[i].dims = <<imgWidth, imgHeight, numImgs>>
          /\ sinkLog[i].op = "copy" => sinkLog[i].dims = <<0, numImgs>>
    /\ sinkLog # <<>> =>
          /\ ScanOver /\ z = numImgs /\ seeds = <<>>
          /\ \A c \in Coords : ValueAt(c) # foreground
          /\ compValue < seedVal
          /\ failure \in {"none", "loadBegin", "copy", "loadEnd"}
          /\ ~cancelReq
    /\ (cancelReq \/ failure \notin {"none", "loadBegin", "copy", "loadEnd"}) => sinkLog = <<>>
    /\ failure = "loadBegin" => SinkOps = <<"loadBegin">>
    /\ pc \in {"copy", "loadEnd"} => Completions = 0
    /\ (Completions = 1 /\ sinkLog # <<>> /\ failure = "none") => SinkOps = SinkOrder

\* loadBegin returned an error and the session has ended.
C12_Witness ==
    /\ pc = "end"
    /\ failure = "loadBegin"
    /\ SinkOps = <<"loadBegin">>
    /\ Completions = 1
    /\ numLabelsFound >= 1


\* C13: in an accepted, uncancelled session with a progress callback the
\* callback is invoked first with (0, total) and then once after each frame's
\* remap with (frameIndex, total), the frame indices in frame order, and total
\* is the same value, the number of frames, in every invocation.
C13_ProgressCalls ==
    (loadProgressCb /\ readLog # <<>> /\ ~cancelled) =>
        /\ Len(progressLog) >= 1
        /\ progressLog[1][1] = 0
        /\ \A i \in 2..Len(progressLog) : progressLog[i][1] = i - 2
        /\ pc \in {"scan", "fill", "loadBegin", "copy", "loadEnd"} =>
              Len(progressLog) = 1 + numImgs
        /\ \A i, j \in 1..Len(progressLog) : progressLog[i][2] = progressLog[j][2]
        /\ pc \in {"scan", "fill", "loadBegin", "copy", "loadEnd"} =>
              \A i \in 1..Len(progressLog) : progressLog[i][2] = numImgs


\* The positions from the start of labeling to the completion callback.
LabelingOrUpload == {"scan", "fill", "loadBegin", "copy", "loadEnd"}

\* C14: in an accepted session, with or without a progress callback, the code
\* suspends only for the initial read and once after each frame's remap; the
\* step after a yield checks the cancellation flag and stops without a
\* callback when it is set; from the start of labeling to the completion
\* callback no step suspends and the cancellation flag does not change.
C14_SuspensionPoints ==
    [][ /\ (pc = "remap" /\ buf' # buf) => pc' = "yield"
        /\ (pc' = "yield" /\ pc # "yield") => (pc = "remap" /\ buf' # buf)
        /\ (pc = "yield" /\ pc' # "yield" /\ cancelled) => (pc' = "end" /\ cbLog' = cbLog)
        /\ (pc' \in {"getFile", "reading"} /\ pc \notin {"getFile", "reading"}) =>
               pc \in {"idle", "end"}
        /\ pc \in LabelingOrUpload => (pc' \notin Suspended /\ cancelled' = cancelled)
      ]_vars


\* The file list is not empty and every item of it is recognized.
AllValid == fileList # <<>> /\ \A i \in 1..Len(fileList) : ~Unrecognized(fileList[i])

\* C15: a load request starts at most one read, and it is a read of item 0 of
\* the list; when every item of a non-empty list is valid exactly that read is
\* started, and a list that is empty or holds an invalid item starts none.
C15_OneReadOfFirst ==
    /\ Len(readLog) <= 1
    /\ \A i \in 1..Len(readLog) : readLog[i] = 0
    /\ (pc # "idle" /\ AllValid) => readLog = <<0>>
    /\ (pc # "idle" /\ ~AllValid) => readLog = <<>>

\* A session on a list of two valid items has ended with success.
C15_Witness ==
    /\ Len(fileList) >= 2
    /\ AllValid
    /\ readLog = <<0>>
    /\ pc = "end"
    /\ Completions = 1
    /\ errors = Null


\* A load request has been accepted by this step.
Accepted == pc \in {"idle", "end"} /\ pc' \in {"getFile", "reading"}

\* C16: a load request resets every session field, the cancellation flag
\* among them: the session it starts begins with done = false, no errors, no
\* warnings, a component count of 0 and the flag clear, also when the session
\* before it was cancelled.
C16_FreshSession ==
    [][Accepted =>
          /\ ~done' /\ errors' = Null /\ warnings' = Null /\ numLabelsFound' = 0
          /\ cancelReq => ~cancelled'
      ]_vars


\* The worklist as a set, and the slots of the worklist a step has filled.
OnWorklist == {seeds[i] : i \in 1..Len(seeds)}

Pushed == {seeds'[i] : i \in (IF seeds = <<>> THEN 1 ELSE Len(seeds))..Len(seeds')}

Labeling == pc \in {"scan", "fill"}

\* C17: every coordinate on the worklist is a voxel that holds the seed value,
\* the coordinates on the worklist are pairwise distinct, and the worklist is
\* empty whenever the raster scan stands between components; a step of the
\* labeling pass pushes only voxels that held foreground and marks them, no
\* step turns a voxel into foreground (so no voxel is pushed twice), a pop
\* takes the last coordinate and leaves the ones below it, and the scan
\* position moves only with the worklist empty before and after.
C17_Worklist ==
    /\ [](Labeling =>
            /\ \A c \in OnWorklist : c \in Coords /\ ValueAt(c) = seedVal
            /\ \A i, j \in 1..Len(seeds) : seeds[i] = seeds[j] => i = j
            /\ pc = "scan" => seeds = <<>>)
    /\ [][Labeling =>
            /\ \A c \in Pushed : ValueAt(c) = foreground /\ ValueAt(c)' = seedVal
            /\ \A c \in Coords : ValueAt(c)' = foreground => ValueAt(c) = foreground
            /\ \A i \in 1..(Len(seeds) - 1) : Len(seeds') >= i /\ seeds'[i] = seeds[i]
            /\ scan' # scan => (seeds = <<>> /\ seeds' = <<>>)
        ]_vars

\* A flood fill with two coordinates on its worklist and one voxel labeled.
C17_Witness ==
    /\ pc = "fill"
    /\ Len(seeds) >= 2
    /\ \E c \in Coords : ValueAt(c) = compValue


\* The voxels that were Foreground after remapping and hold no id yet.
Unlabeled == {c \in FG0 : ValueAt(c) \in {foreground, seedVal}}

\* C18: the labeling pass terminates: it does not go on forever, and it is
\* left only at the end of the grid or at the capacity abort.  Every pop of
\* the worklist takes one voxel out of those that were Foreground and hold no
\* id yet, and no other step of the pass changes that set, so the pops of the
\* whole pass, and of each flood fill, number at most the Foreground voxels
\* of the grid.
C18_Terminates ==
    /\ Labeling ~> (pc \in {"loadBegin", "end"})
    /\ [][Labeling =>
             /\ ~Labeling' => pc' \in {"loadBegin", "end"}
             /\ IF pc = "fill" /\ seeds # <<>>
                THEN /\ seeds[Len(seeds)] \in Unlabeled
                     /\ Unlabeled' = Unlabeled \ {seeds[Len(seeds)]}
                     /\ pc' = "fill"
                ELSE Unlabeled' = Unlabeled
        ]_vars

\* The labeling pass has gone over a grid with three Foreground voxels.
C18_Witness ==
    /\ pc = "loadBegin"
    /\ Cardinality(FG0) >= 3
    /\ Unlabeled = {}


\* A state LabelInit describes, as the loader reaches it from construction.
LabelInitReached ==
    /\ LabelingBegins
    /\ fileList = <<"File">> /\ ~loadProgressCb /\ ~cancelled
    /\ sinkLog = <<>> /\ cbLog = <<>> /\ progressLog = <<>> /\ readLog = <<0>>
    /\ z = Len(ifds.frames) /\ bpp = supportedBpp /\ failure = "none" /\ ~cancelReq
    /\ errors = Null /\ warnings = Null /\ ~done /\ numLabelsFound = 0
    /\ ifds = MixedGrid
    /\ buf = [i \in 1..Len(ifds.frames) |-> RemapFrame(ifds.frames[i])]


\* The value of voxel c in a grid the volume was handed.
HandedAt(i, c) == sinkLog[i].grid[c[3] + 1][c[2] * imgWidth + c[1] + 1]

ComponentIds == firstComp..(seedVal - 1)

\* C19 as stated: in every session that reaches the upload, whatever byte
\* values the decoded frames held, no voxel of the grid handed to the volume
\* holds foreground (2) or the seed value (255), and every voxel that was
\* Foreground after remapping holds a component id in [3, 254].
C19_NoTransientValues ==
    sinkLog # <<>> =>
        LET all == Coords
        IN  \A i \in 1..Len(sinkLog) : \A c \in all :
                /\ HandedAt(i, c) \notin {foreground, seedVal}
                /\ Table(RawAt(c)) = foreground => HandedAt(i, c) \in ComponentIds

\* C19, amended: in every session that reaches the upload no voxel of the
\* grid handed to the volume holds foreground (2); a voxel holds 255 only if
\* its decoded value was 255, which the remap table leaves as it is; every
\* voxel that was Foreground after remapping holds a component id in
\* [3, 254], and every other voxel holds the remapped value of its raw code.
C19_NoTransientButRaw ==
    sinkLog # <<>> =>
        LET all == Coords
        IN  \A i \in 1..Len(sinkLog) : \A c \in all :
                /\ HandedAt(i, c) # foreground
                /\ HandedAt(i, c) = seedVal => RawAt(c) = seedVal
                /\ Table(RawAt(c)) = foreground => HandedAt(i, c) \in ComponentIds
                /\ Table(RawAt(c)) # foreground => HandedAt(i, c) = Table(RawAt(c))

\* A grid with two components and a voxel decoded as 255 has been uploaded.
C19_Witness ==
    /\ Len(sinkLog) = 3
    /\ numLabelsFound >= 2
    /\ \E c \in Coords : RawAt(c) = seedVal /\ HandedAt(1, c) = seedVal
    /\ \E c \in Coords : Table(RawAt(c)) = foreground /\ HandedAt(1, c) \in ComponentIds


\* C20: once loadBegin has been called the buffers are not written again: the
\* grid the volume saw at loadBegin, at the copy and at loadEnd is the grid
\* that stands in the buffers in every later state of the session, the one
\* of the completion callback included.
C20_GridFrozen ==
    /\ \A i \in 1..Len(sinkLog) : sinkLog[i].grid = buf
    /\ sinkLog # <<>> => sinkLog[1].op = "loadBegin"

\* A grid with a component has gone through loadBegin, the copy and loadEnd,
\* and the completion callback has been invoked.
C20_Witness ==
    /\ Len(sinkLog) = 3
    /\ pc = "end"
    /\ Completions = 1
    /\ numLabelsFound >= 1
    /\ \E c \in Coords : ValueAt(c) = firstComp

====
